---- MODULE Spec2Model ----
(***************************************************************************)
(* Model of the arena-backed AVL tree of src/src/binary_search.rs.         *)
(* Slot indices are 0-based as in the source; slot i of the arena is       *)
(* data[i+1].  Option<usize> is an integer with NONE for None.  A failed   *)
(* unwrap, an out-of-range index or unreachable!() is a panic: the         *)
(* operator returns the tree with ok = FALSE.                              *)
(* A function whose body goes on with the result of a call is split at     *)
(* that call: the part after it is an operator of its own that takes the   *)
(* result as a parameter.                                                  *)
(***************************************************************************)
EXTENDS Integers, Sequences, FiniteSets, TLC

\* Values are drawn from 1..MaxVal.  The runs that also hand out slot
\* indices to get, or that drain the tree through the iterator, draw them
\* from 1..MaxGetVal and 1..MaxIterVal.
MaxVal == 6
MaxGetVal == 4
MaxIterVal == 4
Values == 1..MaxVal
GetValues == 1..MaxGetVal
IterValues == 1..MaxIterVal

NONE == -1

Max(a, b) == IF a >= b THEN a ELSE b

\* Option<Node<T>>: a vacated slot (None) and Some(Node::new(value)).
Vacant == [occ |-> FALSE, value |-> 0, left |-> NONE, right |-> NONE, height |-> 0]
NewNode(value) == [occ |-> TRUE, value |-> value, left |-> NONE, right |-> NONE, height |-> 0]

\* Tree::new()
NewTree == [data |-> <<>>, free |-> <<>>, root |-> 0, size |-> 0, ok |-> TRUE]

\* self.data[i] indexes without panicking
InRange(t, i) == i >= 0 /\ i < Len(t.data)
Slot(t, i) == t.data[i + 1]
\* self.data[i].as_ref().unwrap() succeeds
Occupied(t, i) == InRange(t, i) /\ Slot(t, i).occ
Panic(t) == [t EXCEPT !.ok = FALSE]
\* A panicking call that would have returned a value
PanicRet(t) == [t |-> Panic(t), ret |-> NONE]
Last(seq) == seq[Len(seq)]
Front(seq) == SubSeq(seq, 1, Len(seq) - 1)

\* Tree::len
len(t) == t.size

\* is_empty with the comparison wrong: never true
is_empty_never(t) == t.size < 0

\* Tree::is_empty
is_empty(t) == t.size = 0

\* Tree::get: ok = FALSE when the index is out of range
get(t, index) ==
    IF ~InRange(t, index) THEN [ret |-> NONE, ok |-> FALSE]
    ELSE IF Slot(t, index).occ THEN [ret |-> Slot(t, index).value, ok |-> TRUE]
    ELSE [ret |-> NONE, ok |-> TRUE]

\* insert_helper returning data.len() after the push instead of len()
insert_helper_len_after_push(t, value) ==
    IF t.free # <<>>
    THEN IF ~InRange(t, Last(t.free)) THEN PanicRet(t)
         ELSE [t |-> [t EXCEPT !.free = Front(t.free), !.data[Last(t.free) + 1] = NewNode(value)],
               ret |-> Last(t.free)]
    ELSE [t |-> [t EXCEPT !.data = Append(t.data, NewNode(value))], ret |-> Len(t.data) + 1]

\* Tree::insert_helper
insert_helper(t, value) ==
    IF t.free # <<>>
    THEN IF ~InRange(t, Last(t.free)) THEN PanicRet(t)
         ELSE [t |-> [t EXCEPT !.free = Front(t.free), !.data[Last(t.free) + 1] = NewNode(value)],
               ret |-> Last(t.free)]
    ELSE [t |-> [t EXCEPT !.data = Append(t.data, NewNode(value))], ret |-> len(t)]

\* popped.swap_remove(n) for the 1-based position n: the last element takes
\* place n
SwapRemove(popped, n) ==
    IF n = Len(popped) THEN Front(popped)
    ELSE Front([popped EXCEPT ![n] = Last(popped)])

\* popped.iter().position(|p| i == p), 1-based, 0 for None
Position(popped, i) ==
    IF \E p \in 1..Len(popped) : popped[p] = i
    THEN CHOOSE p \in 1..Len(popped) :
             popped[p] = i /\ \A q \in 1..(p - 1) : popped[q] # i
    ELSE 0

\* The retain closure of clean_tail: drops from free each index that is in
\* popped, consuming one entry of popped per dropped index.
RECURSIVE Retain(_, _)
\* The retain closure keeping every index
RetainAt_keep_all(free, popped, n) ==
    <<free[1]>> \o Retain(Tail(free), popped)

RetainAt(free, popped, n) ==
    IF n # 0 THEN Retain(Tail(free), SwapRemove(popped, n))
    ELSE <<free[1]>> \o Retain(Tail(free), popped)

Retain(free, popped) ==
    IF free = <<>> THEN <<>>
    ELSE RetainAt(free, popped, Position(popped, free[1]))

\* Tree::clean_tail
RECURSIVE CleanTailLoop(_, _)
CleanTailLoop(t, popped) ==
    IF t.data = <<>> THEN Panic(t)
    ELSE IF ~Last(t.data).occ
         THEN CleanTailLoop([t EXCEPT !.data = Front(t.data)], Append(popped, Len(t.data) - 1))
         ELSE [t EXCEPT !.free = Retain(t.free, popped)]

\* clean_tail that trims nothing
clean_tail_skip(t) == t

clean_tail(t) == IF ~t.ok THEN t ELSE CleanTailLoop(t, <<>>)

\* Height read through an Option<usize> link: the linked node's height
\* field, -1 for None
LinkHeight(t, link) == IF link # NONE THEN Slot(t, link).height ELSE -1

\* Tree::update_height
update_height(t, index) ==
    IF ~t.ok THEN [t |-> t, ret |-> 0]
    ELSE IF ~Occupied(t, index) THEN [t |-> Panic(t), ret |-> 0]
    ELSE IF Slot(t, index).left # NONE /\ ~Occupied(t, Slot(t, index).left)
    THEN [t |-> Panic(t), ret |-> 0]
    ELSE IF Slot(t, index).right # NONE /\ ~Occupied(t, Slot(t, index).right)
    THEN [t |-> Panic(t), ret |-> 0]
    ELSE [t |-> [t EXCEPT !.data[index + 1].height =
                     1 + Max(LinkHeight(t, Slot(t, index).left), LinkHeight(t, Slot(t, index).right))],
          ret |-> LinkHeight(t, Slot(t, index).right) - LinkHeight(t, Slot(t, index).left)]

\* The end of a single rotation: both heights recomputed, first the node
\* that moved down, then the new subtree root, which is returned
RotateHeights(t, down, up) ==
    [t |-> update_height(update_height(t, down).t, up).t, ret |-> up]

\* rotate_right recomputing the new subtree root's height before the
\* height of the node that moved below it
rotate_right_heights_swapped(t, index) ==
    IF ~t.ok THEN [t |-> t, ret |-> NONE]
    ELSE IF ~Occupied(t, index) \/ Slot(t, index).left = NONE THEN PanicRet(t)
    ELSE IF ~Occupied(t, Slot(t, index).left) THEN PanicRet(t)
    ELSE [t |-> update_height(
                    update_height(
                        [t EXCEPT !.data[index + 1].left = Slot(t, Slot(t, index).left).right,
                                  !.data[Slot(t, index).left + 1].right = index],
                        Slot(t, index).left).t,
                    index).t,
          ret |-> Slot(t, index).left]

\* Tree::rotate_right
rotate_right(t, index) ==
    IF ~t.ok THEN [t |-> t, ret |-> NONE]
    ELSE IF ~Occupied(t, index) \/ Slot(t, index).left = NONE THEN PanicRet(t)
    ELSE IF ~Occupied(t, Slot(t, index).left) THEN PanicRet(t)
    ELSE RotateHeights(
             [t EXCEPT !.data[index + 1].left = Slot(t, Slot(t, index).left).right,
                       !.data[Slot(t, index).left + 1].right = index],
             index, Slot(t, index).left)

\* rotate_left that forgets the inner subtree of the right child
rotate_left_drops_inner(t, index) ==
    IF ~t.ok THEN [t |-> t, ret |-> NONE]
    ELSE IF ~Occupied(t, index) \/ Slot(t, index).right = NONE THEN PanicRet(t)
    ELSE IF ~Occupied(t, Slot(t, index).right) THEN PanicRet(t)
    ELSE RotateHeights(
             [t EXCEPT !.data[index + 1].right = NONE,
                       !.data[Slot(t, index).right + 1].left = index],
             index, Slot(t, index).right)

\* Tree::rotate_left
rotate_left(t, index) ==
    IF ~t.ok THEN [t |-> t, ret |-> NONE]
    ELSE IF ~Occupied(t, index) \/ Slot(t, index).right = NONE THEN PanicRet(t)
    ELSE IF ~Occupied(t, Slot(t, index).right) THEN PanicRet(t)
    ELSE RotateHeights(
             [t EXCEPT !.data[index + 1].right = Slot(t, Slot(t, index).right).left,
                       !.data[Slot(t, index).right + 1].left = index],
             index, Slot(t, index).right)

\* rotate_right_left done by exchanging slot contents, so that the subtree
\* keeps its root slot: the value of the inner grandchild moves to index
\* and the value of index moves to the grandchild's slot
rotate_right_left_in_place(t, index) ==
    IF ~t.ok THEN [t |-> t, ret |-> NONE]
    ELSE IF ~Occupied(t, index) \/ Slot(t, index).right = NONE THEN PanicRet(t)
    ELSE IF ~Occupied(t, Slot(t, index).right) \/ Slot(t, Slot(t, index).right).left = NONE
    THEN PanicRet(t)
    ELSE IF ~Occupied(t, Slot(t, Slot(t, index).right).left) THEN PanicRet(t)
    ELSE [t |-> update_height(
                    update_height(
                        update_height(
                            [t EXCEPT
                                !.data[index + 1].value =
                                    Slot(t, Slot(t, Slot(t, index).right).left).value,
                                !.data[index + 1].left = Slot(t, Slot(t, index).right).left,
                                !.data[Slot(t, Slot(t, index).right).left + 1].value =
                                    Slot(t, index).value,
                                !.data[Slot(t, Slot(t, index).right).left + 1].left =
                                    Slot(t, index).left,
                                !.data[Slot(t, Slot(t, index).right).left + 1].right =
                                    Slot(t, Slot(t, Slot(t, index).right).left).left,
                                !.data[Slot(t, index).right + 1].left =
                                    Slot(t, Slot(t, Slot(t, index).right).left).right],
                            Slot(t, Slot(t, index).right).left).t,
                        Slot(t, index).right).t,
                    index).t,
          ret |-> index]

\* Tree::rotate_left_right after rotate_left(left_index) returned r
rotate_left_right_relink(r, index) ==
    IF ~r.t.ok THEN r
    ELSE IF ~Occupied(r.t, index) THEN PanicRet(r.t)
    ELSE rotate_right([r.t EXCEPT !.data[index + 1].left = r.ret], index)

\* Tree::rotate_left_right
rotate_left_right(t, index) ==
    IF ~t.ok THEN [t |-> t, ret |-> NONE]
    ELSE IF ~Occupied(t, index) \/ Slot(t, index).left = NONE THEN PanicRet(t)
    ELSE rotate_left_right_relink(rotate_left(t, Slot(t, index).left), index)

\* Tree::rotate_right_left after rotate_right(right_index) returned r
rotate_right_left_relink(r, index) ==
    IF ~r.t.ok THEN r
    ELSE IF ~Occupied(r.t, index) THEN PanicRet(r.t)
    ELSE rotate_left([r.t EXCEPT !.data[index + 1].right = r.ret], index)

\* Tree::rotate_right_left
rotate_right_left(t, index) ==
    IF ~t.ok THEN [t |-> t, ret |-> NONE]
    ELSE IF ~Occupied(t, index) \/ Slot(t, index).right = NONE THEN PanicRet(t)
    ELSE rotate_right_left_relink(rotate_right(t, Slot(t, index).right), index)

\* balance_node with the arms of the two inner matches exchanged
balance_node_arms_swapped(t, index, balance_factor) ==
    IF ~t.ok THEN [t |-> t, ret |-> NONE]
    ELSE IF ~Occupied(t, index) THEN PanicRet(t)
    ELSE IF balance_factor = -2
    THEN IF Slot(t, index).left = NONE \/ ~Occupied(t, Slot(t, index).left) THEN PanicRet(t)
         ELSE IF Slot(t, Slot(t, index).left).left # NONE
         THEN rotate_left_right(t, index)
         ELSE rotate_right(t, index)
    ELSE IF balance_factor = 2
    THEN IF Slot(t, index).right = NONE \/ ~Occupied(t, Slot(t, index).right) THEN PanicRet(t)
         ELSE IF Slot(t, Slot(t, index).right).right # NONE
         THEN rotate_right_left(t, index)
         ELSE rotate_left(t, index)
    ELSE [t |-> t, ret |-> index]

\* Tree::balance_node
balance_node(t, index, balance_factor) ==
    IF ~t.ok THEN [t |-> t, ret |-> NONE]
    ELSE IF ~Occupied(t, index) THEN PanicRet(t)
    ELSE IF balance_factor = -2
    THEN IF Slot(t, index).left = NONE \/ ~Occupied(t, Slot(t, index).left) THEN PanicRet(t)
         ELSE IF Slot(t, Slot(t, index).left).left # NONE
         THEN rotate_right(t, index)
         ELSE rotate_left_right(t, index)
    ELSE IF balance_factor = 2
    THEN IF Slot(t, index).right = NONE \/ ~Occupied(t, Slot(t, index).right) THEN PanicRet(t)
         ELSE IF Slot(t, Slot(t, index).right).right # NONE
         THEN rotate_left(t, index)
         ELSE rotate_right_left(t, index)
    ELSE [t |-> t, ret |-> index]

\* Tree::update_and_balance, one turn of the loop: index has been popped,
\* rest is what remains of visited_indices
RECURSIVE update_and_balance(_, _)

\* ... after balance_node returned bn: patch the grandfather's link, or
\* the root when the path is used up, and loop
\* The relink that always takes the grandfather's right link
PatchLink_always_right(bn, index, rest) ==
    IF ~bn.t.ok THEN bn.t
    ELSE IF rest = <<>> THEN [bn.t EXCEPT !.root = bn.ret]
    ELSE IF ~Occupied(bn.t, Last(rest)) THEN Panic(bn.t)
    ELSE [bn.t EXCEPT !.data[Last(rest) + 1].right = bn.ret]

PatchLink(bn, index, rest) ==
    IF ~bn.t.ok THEN bn.t
    ELSE IF rest = <<>> THEN [bn.t EXCEPT !.root = bn.ret]
    ELSE IF ~Occupied(bn.t, Last(rest)) THEN Panic(bn.t)
    ELSE IF Slot(bn.t, Last(rest)).left # NONE /\ index = Slot(bn.t, Last(rest)).left
    THEN [bn.t EXCEPT !.data[Last(rest) + 1].left = bn.ret]
    ELSE [bn.t EXCEPT !.data[Last(rest) + 1].right = bn.ret]

update_and_balance_patch(bn, index, rest) ==
    update_and_balance(PatchLink(bn, index, rest), rest)

\* ... after update_height returned uh
update_and_balance_node(uh, index, rest) ==
    update_and_balance_patch(balance_node(uh.t, index, uh.ret), index, rest)

\* Tree::update_and_balance
update_and_balance(t, visited_indices) ==
    IF ~t.ok \/ visited_indices = <<>> THEN t
    ELSE update_and_balance_node(update_height(t, Last(visited_indices)),
                                 Last(visited_indices), Front(visited_indices))

\* Results of contains_helper, (found, Option<Vec>): some = FALSE stands
\* for None; ok = FALSE for a panic.
Search(found, path) == [found |-> found, some |-> TRUE, path |-> path, ok |-> TRUE]
SearchAtRoot == [found |-> TRUE, some |-> FALSE, path |-> <<>>, ok |-> TRUE]
SearchPanic == [found |-> FALSE, some |-> FALSE, path |-> <<>>, ok |-> FALSE]

\* Tree::contains_helper, the while loop
RECURSIVE ContainsLoop(_, _, _, _)

\* ... after the match chose the next index (NONE: the link is missing)
ContainsStep(t, value, next, visited_indices) ==
    IF next = NONE THEN Search(FALSE, visited_indices)
    ELSE IF ~Occupied(t, next) THEN SearchPanic
    ELSE IF value = Slot(t, next).value THEN Search(TRUE, visited_indices)
    ELSE ContainsLoop(t, value, next, Append(visited_indices, next))

ContainsLoop(t, value, current_index, visited_indices) ==
    IF Slot(t, current_index).left = NONE /\ Slot(t, current_index).right = NONE
    THEN Search(FALSE, visited_indices)
    ELSE ContainsStep(t, value,
                      IF value < Slot(t, current_index).value THEN Slot(t, current_index).left
                      ELSE IF value > Slot(t, current_index).value THEN Slot(t, current_index).right
                      ELSE current_index,
                      visited_indices)

\* contains_helper without the comparison against the root's value
contains_helper_no_root_check(t, value) ==
    IF ~Occupied(t, t.root) THEN SearchPanic
    ELSE ContainsLoop(t, value, t.root, <<t.root>>)

\* Tree::contains_helper
contains_helper(t, value) ==
    IF ~Occupied(t, t.root) THEN SearchPanic
    ELSE IF value = Slot(t, t.root).value THEN SearchAtRoot
    ELSE ContainsLoop(t, value, t.root, <<t.root>>)

\* contains taking the parent's link on the wrong side
contains_match_wrong_side(t, value, ch) ==
    IF ~ch.ok THEN [ret |-> NONE, ok |-> FALSE]
    ELSE IF ~ch.found THEN [ret |-> NONE, ok |-> TRUE]
    ELSE IF ~ch.some THEN [ret |-> t.root, ok |-> TRUE]
    ELSE IF ch.path = <<>> \/ ~Occupied(t, Last(ch.path)) THEN [ret |-> NONE, ok |-> FALSE]
    ELSE IF value < Slot(t, Last(ch.path)).value
    THEN [ret |-> Slot(t, Last(ch.path)).right, ok |-> TRUE]
    ELSE IF value > Slot(t, Last(ch.path)).value
    THEN [ret |-> Slot(t, Last(ch.path)).left, ok |-> TRUE]
    ELSE [ret |-> NONE, ok |-> FALSE]

\* Tree::contains after contains_helper returned ch
contains_match(t, value, ch) ==
    IF ~ch.ok THEN [ret |-> NONE, ok |-> FALSE]
    ELSE IF ~ch.found THEN [ret |-> NONE, ok |-> TRUE]
    ELSE IF ~ch.some THEN [ret |-> t.root, ok |-> TRUE]
    ELSE IF ch.path = <<>> \/ ~Occupied(t, Last(ch.path)) THEN [ret |-> NONE, ok |-> FALSE]
    ELSE IF value < Slot(t, Last(ch.path)).value
    THEN [ret |-> Slot(t, Last(ch.path)).left, ok |-> TRUE]
    ELSE IF value > Slot(t, Last(ch.path)).value
    THEN [ret |-> Slot(t, Last(ch.path)).right, ok |-> TRUE]
    ELSE [ret |-> NONE, ok |-> FALSE]

\* Tree::contains
contains(t, value) ==
    IF is_empty(t) THEN [ret |-> NONE, ok |-> TRUE]
    ELSE contains_match(t, value, contains_helper(t, value))

\* link_child with the two arms exchanged
link_child_flipped(t, parent_index, less, insert_index) ==
    IF less
    THEN [t EXCEPT !.data[parent_index + 1].right = insert_index]
    ELSE [t EXCEPT !.data[parent_index + 1].left = insert_index]

\* Tree::insert, the arms of the match that hang the new slot under its
\* parent (less: the comparison gave Less; otherwise Greater)
link_child(t, parent_index, less, insert_index) ==
    IF less
    THEN [t EXCEPT !.data[parent_index + 1].left = insert_index]
    ELSE [t EXCEPT !.data[parent_index + 1].right = insert_index]

\* insert_done without the size += 1
insert_done_no_count(t, insert_index) ==
    IF ~t.ok THEN [t |-> t, ret |-> NONE]
    ELSE [t |-> t, ret |-> insert_index]

\* Tree::insert after update_and_balance returned t: size += 1
insert_done(t, insert_index) ==
    IF ~t.ok THEN [t |-> t, ret |-> NONE]
    ELSE [t |-> [t EXCEPT !.size = t.size + 1], ret |-> insert_index]

\* Tree::insert after insert_helper returned ih
insert_link(ih, less, visited_indices) ==
    IF ~ih.t.ok THEN [t |-> ih.t, ret |-> NONE]
    ELSE IF ~Occupied(ih.t, Last(visited_indices)) THEN PanicRet(ih.t)
    ELSE insert_done(
             update_and_balance(link_child(ih.t, Last(visited_indices), less, ih.ret),
                                visited_indices),
             ih.ret)

\* Tree::insert after contains_helper returned ch
insert_search(t, value, ch) ==
    IF ~ch.ok THEN PanicRet(t)
    ELSE IF ch.found \/ ~ch.some THEN [t |-> t, ret |-> NONE]
    ELSE IF ch.path = <<>> \/ ~Occupied(t, Last(ch.path)) THEN PanicRet(t)
    ELSE IF value = Slot(t, Last(ch.path)).value THEN PanicRet(t)
    ELSE insert_link(insert_helper(t, value), value < Slot(t, Last(ch.path)).value, ch.path)

\* Tree::insert
insert(t, value) ==
    IF is_empty(t)
    THEN [t |-> [t EXCEPT !.data = Append(t.data, NewNode(value)), !.size = 1], ret |-> 0]
    ELSE insert_search(t, value, contains_helper(t, value))

\* The descent loops of Tree::remove to the in-order neighbour: follow
\* right links (predecessor side) or left links (successor side), pushing
\* every index left behind onto visited_indices.
RECURSIVE DescendRight(_, _, _)
DescendRight(t, current_index, visited_indices) ==
    IF Slot(t, current_index).right = NONE
    THEN [cur |-> current_index, path |-> visited_indices, ok |-> TRUE]
    ELSE IF ~Occupied(t, Slot(t, current_index).right)
    THEN [cur |-> current_index, path |-> visited_indices, ok |-> FALSE]
    ELSE DescendRight(t, Slot(t, current_index).right, Append(visited_indices, current_index))

RECURSIVE DescendLeft(_, _, _)
DescendLeft(t, current_index, visited_indices) ==
    IF Slot(t, current_index).left = NONE
    THEN [cur |-> current_index, path |-> visited_indices, ok |-> TRUE]
    ELSE IF ~Occupied(t, Slot(t, current_index).left)
    THEN [cur |-> current_index, path |-> visited_indices, ok |-> FALSE]
    ELSE DescendLeft(t, Slot(t, current_index).left, Append(visited_indices, current_index))

\* self.data.swap(a, b)
SwapSlots(t, a, b) == [t EXCEPT !.data = [t.data EXCEPT ![a + 1] = t.data[b + 1], ![b + 1] = t.data[a + 1]]]

\* A step of Tree::remove that goes on to update_and_balance: the tree, the
\* path to replay and the value to return
Edit(t, path, ret) == [t |-> t, path |-> path, ret |-> ret]

\* Tree::remove, two-children branch, lines 441-456: replace_index is
\* pushed on free and vacated, its value moves into a fresh node at
\* val_index that keeps the links to val_left and val_right where those
\* slots are still occupied.  t3 is the tree with replace_index vacated.
ReplaceNode(t, t3, visited_indices, val_index, val_left, val_right, replace_index) ==
    IF ~Slot(t3, val_index).occ THEN Edit(Panic(t3), visited_indices, NONE)
    ELSE Edit([t3 EXCEPT !.data[val_index + 1] =
                   [occ |-> TRUE,
                    value |-> Slot(t, replace_index).value,
                    left |-> IF Slot(t3, val_left).occ THEN val_left ELSE NONE,
                    right |-> IF Slot(t3, val_right).occ THEN val_right ELSE NONE,
                    height |-> 0]],
              visited_indices, Slot(t3, val_index).value)

MoveNeighbour(t, visited_indices, val_index, val_left, val_right, replace_index) ==
    IF ~Occupied(t, replace_index) THEN Edit(Panic(t), visited_indices, NONE)
    ELSE ReplaceNode(t,
                     [t EXCEPT !.free = Append(t.free, replace_index),
                               !.data[replace_index + 1] = Vacant],
                     visited_indices, val_index, val_left, val_right, replace_index)

\* Tree::remove, two-children branch, lines 405-417 and 426-438, after the
\* descent returned d: outward is the neighbour's one possible child
\* (left on the predecessor side, right on the successor side).  With a
\* child the two slots are swapped and the child's former slot is the one
\* to vacate; without, the link of the last visited index is cleared.
UnlinkNeighbour(t, d, takeLeft, outward, val_index, val_left, val_right) ==
    IF outward # NONE
    THEN IF ~InRange(t, outward) THEN Edit(Panic(t), d.path, NONE)
         ELSE MoveNeighbour(SwapSlots(t, d.cur, outward), d.path,
                            val_index, val_left, val_right, outward)
    ELSE IF d.path = <<>> \/ ~Occupied(t, Last(d.path)) THEN Edit(Panic(t), d.path, NONE)
    ELSE IF takeLeft
    THEN MoveNeighbour([t EXCEPT !.data[Last(d.path) + 1].right = NONE], d.path,
                       val_index, val_left, val_right, d.cur)
    ELSE MoveNeighbour([t EXCEPT !.data[Last(d.path) + 1].left = NONE], d.path,
                       val_index, val_left, val_right, d.cur)

FindNeighbour(t, d, takeLeft, val_index, val_left, val_right) ==
    IF ~d.ok THEN Edit(Panic(t), d.path, NONE)
    ELSE UnlinkNeighbour(t, d, takeLeft,
                         IF takeLeft THEN Slot(t, d.cur).left ELSE Slot(t, d.cur).right,
                         val_index, val_left, val_right)

\* The two-children branch taking the predecessor on equal heights too
RemoveTwoChildrenFrom_ties_left(t, visited0, val_index, val_left, val_right) ==
    IF ~Occupied(t, val_left) \/ ~Occupied(t, val_right) THEN Edit(Panic(t), visited0, NONE)
    ELSE IF Slot(t, val_left).height >= Slot(t, val_right).height
    THEN FindNeighbour(t, DescendRight(t, val_left, visited0), TRUE,
                       val_index, val_left, val_right)
    ELSE FindNeighbour(t, DescendLeft(t, val_right, visited0), FALSE,
                       val_index, val_left, val_right)

\* Tree::remove, the two-children branch (lines 377-456); visited0 is
\* visited_indices with val_index pushed unless it is the root
RemoveTwoChildrenFrom(t, visited0, val_index, val_left, val_right) ==
    IF ~Occupied(t, val_left) \/ ~Occupied(t, val_right) THEN Edit(Panic(t), visited0, NONE)
    ELSE IF Slot(t, val_left).height > Slot(t, val_right).height
    THEN FindNeighbour(t, DescendRight(t, val_left, visited0), TRUE,
                       val_index, val_left, val_right)
    ELSE FindNeighbour(t, DescendLeft(t, val_right, visited0), FALSE,
                       val_index, val_left, val_right)

RemoveTwoChildren(t, visited_indices, is_root, val_index) ==
    RemoveTwoChildrenFrom(t,
                          IF is_root THEN visited_indices ELSE Append(visited_indices, val_index),
                          val_index, Slot(t, val_index).left, Slot(t, val_index).right)

\* left.xor(right) of a node: the only child, NONE with no or two children
OnlyChild(node) ==
    IF node.left # NONE /\ node.right = NONE THEN node.left
    ELSE IF node.left = NONE /\ node.right # NONE THEN node.right
    ELSE NONE

\* RemoveSplice patching the parent's link on the wrong side
RemoveSplice_wrong_side(t, visited_indices, parent_index, child_is_left, val_index) ==
    Edit([(IF child_is_left
           THEN [t EXCEPT !.data[parent_index + 1].right = OnlyChild(Slot(t, val_index))]
           ELSE [t EXCEPT !.data[parent_index + 1].left = OnlyChild(Slot(t, val_index))])
             EXCEPT !.free = Append(t.free, val_index), !.data[val_index + 1] = Vacant],
         visited_indices, Slot(t, val_index).value)

\* Tree::remove, the leaf / single-child branch (lines 457-475)
RemoveSplice(t, visited_indices, parent_index, child_is_left, val_index) ==
    Edit([(IF child_is_left
           THEN [t EXCEPT !.data[parent_index + 1].left = OnlyChild(Slot(t, val_index))]
           ELSE [t EXCEPT !.data[parent_index + 1].right = OnlyChild(Slot(t, val_index))])
             EXCEPT !.free = Append(t.free, val_index), !.data[val_index + 1] = Vacant],
         visited_indices, Slot(t, val_index).value)

\* Tree::remove after clean_tail returned t: size -= 1
remove_done(t, return_val) ==
    IF ~t.ok THEN [t |-> t, ret |-> NONE]
    ELSE [t |-> [t EXCEPT !.size = t.size - 1], ret |-> return_val]

\* Tree::remove, lines 477-480, after the structural edit e
remove_rebalance(e) ==
    remove_done(clean_tail(update_and_balance(e.t, e.path)), e.ret)

\* Tree::remove, lines 366-475: the target slot and its case
remove_at(t, visited_indices, is_root, parent_index, child_is_left, val_index) ==
    IF val_index = NONE \/ ~Occupied(t, val_index) THEN PanicRet(t)
    ELSE IF Slot(t, val_index).left # NONE /\ Slot(t, val_index).right # NONE
    THEN remove_rebalance(RemoveTwoChildren(t, visited_indices, is_root, val_index))
    ELSE remove_rebalance(RemoveSplice(t, visited_indices, parent_index, child_is_left, val_index))

remove_path(t, value, is_root, visited_indices) ==
    IF visited_indices = <<>> \/ ~Occupied(t, Last(visited_indices)) THEN PanicRet(t)
    ELSE remove_at(t, visited_indices, is_root, Last(visited_indices),
                   value < Slot(t, Last(visited_indices)).value,
                   IF is_root THEN t.root
                   ELSE IF value < Slot(t, Last(visited_indices)).value
                   THEN Slot(t, Last(visited_indices)).left
                   ELSE Slot(t, Last(visited_indices)).right)

\* Tree::remove, lines 361-365, after contains_helper returned ch
remove_search(t, value, is_root, ch) ==
    IF ~ch.ok THEN PanicRet(t)
    ELSE IF ~ch.found THEN [t |-> t, ret |-> NONE]
    ELSE remove_path(t, value, is_root, IF ch.some THEN ch.path ELSE <<t.root>>)

\* Tree::remove from the search on (lines 361-480)
RemoveGeneral(t, value, is_root) == remove_search(t, value, is_root, contains_helper(t, value))

\* Tree::remove, lines 346-356, after clean_tail returned t
remove_root_done(t, return_val) ==
    IF ~t.ok THEN [t |-> t, ret |-> NONE] ELSE [t |-> t, ret |-> return_val]

\* remove whose single-node case leaves the free list as it is
remove_keeps_free(t, value) ==
    IF is_empty(t) THEN [t |-> t, ret |-> NONE]
    ELSE IF ~Occupied(t, t.root) THEN PanicRet(t)
    ELSE IF value = Slot(t, t.root).value /\ t.size = 1
    THEN IF ~Last(t.data).occ THEN PanicRet(t)
         ELSE [t |-> [t EXCEPT !.data = <<>>, !.size = 0, !.root = 0],
               ret |-> Last(t.data).value]
    ELSE IF value = Slot(t, t.root).value /\ OnlyChild(Slot(t, t.root)) # NONE
    THEN remove_root_done(
             clean_tail([t EXCEPT !.data[t.root + 1] = Vacant,
                                  !.size = t.size - 1,
                                  !.free = Append(t.free, t.root),
                                  !.root = OnlyChild(Slot(t, t.root))]),
             Slot(t, t.root).value)
    ELSE RemoveGeneral(t, value, value = Slot(t, t.root).value)

\* Tree::remove
remove(t, value) ==
    IF is_empty(t) THEN [t |-> t, ret |-> NONE]
    ELSE IF ~Occupied(t, t.root) THEN PanicRet(t)
    ELSE IF value = Slot(t, t.root).value /\ t.size = 1
    THEN IF ~Last(t.data).occ THEN PanicRet(t)
         ELSE [t |-> [t EXCEPT !.data = <<>>, !.free = <<>>, !.size = 0, !.root = 0],
               ret |-> Last(t.data).value]
    ELSE IF value = Slot(t, t.root).value /\ OnlyChild(Slot(t, t.root)) # NONE
    THEN remove_root_done(
             clean_tail([t EXCEPT !.data[t.root + 1] = Vacant,
                                  !.size = t.size - 1,
                                  !.free = Append(t.free, t.root),
                                  !.root = OnlyChild(Slot(t, t.root))]),
             Slot(t, t.root).value)
    ELSE RemoveGeneral(t, value, value = Slot(t, t.root).value)

\* Iterator for Iter: next.  it = [data, queue]; ret = NONE when exhausted.
PushBack(q, link) == IF link # NONE THEN Append(q, link) ELSE q

iter_next(it) ==
    IF it.queue = <<>> THEN [it |-> it, ret |-> NONE, ok |-> TRUE]
    ELSE IF ~(it.queue[1] >= 0 /\ it.queue[1] < Len(it.data)) \/ ~it.data[it.queue[1] + 1].occ
    THEN [it |-> [it EXCEPT !.queue = Tail(it.queue)], ret |-> NONE, ok |-> FALSE]
    ELSE [it |-> [data |-> [it.data EXCEPT ![it.queue[1] + 1] = Vacant],
                  queue |-> PushBack(PushBack(Tail(it.queue), it.data[it.queue[1] + 1].left),
                                     it.data[it.queue[1] + 1].right)],
          ret |-> it.data[it.queue[1] + 1].value, ok |-> TRUE]

\* ---------------------------------------------------------------------
\* State machine
\* ---------------------------------------------------------------------
\* data, free, root, size: the fields of Tree (data is Iter.data once the
\*   tree has been moved into the iterator).
\* panicked: a call has panicked; nothing runs afterwards.
\* present: the values inserted and not removed since (the abstract set).
\* issued: the slot indices the caller has kept from insert and contains.
\* got: the result of the last get, <<index, result>>.
\* mode: "tree" while the caller owns the Tree, "iter" after into_iter,
\*   "done" once next has returned None.
\* queue: Iter.queue.  yielded: the values next has returned, in order.
VARIABLES data, free, root, size, panicked, present, issued, got, mode, queue, yielded

vars == <<data, free, root, size, panicked, present, issued, got, mode, queue, yielded>>

\* The Tree value held by the caller
Tree == [data |-> data, free |-> free, root |-> root, size |-> size, ok |-> TRUE]

Init ==
    /\ data = NewTree.data
    /\ free = NewTree.free
    /\ root = NewTree.root
    /\ size = NewTree.size
    /\ panicked = FALSE
    /\ present = {}
    /\ issued = {}
    /\ got = <<>>
    /\ mode = "tree"
    /\ queue = <<>>
    /\ yielded = <<>>

SetTree(t) ==
    /\ data' = t.data
    /\ free' = t.free
    /\ root' = t.root
    /\ size' = t.size
    /\ panicked' = ~t.ok

\* tree.insert(value), the returned index dropped
Insert(value) ==
    /\ mode = "tree" /\ ~panicked
    /\ SetTree(insert(Tree, value).t)
    /\ present' = present \cup {value}
    /\ UNCHANGED <<issued, got, mode, queue, yielded>>

\* The caller keeps the index a call returned, if it returned one
Keep(ok, index) ==
    issued' = IF ok /\ index # NONE THEN issued \cup {index} ELSE issued

SetTreeKeep(r) == SetTree(r.t) /\ Keep(r.t.ok, r.ret)

\* let i = tree.insert(value), the caller keeping i
InsertKeep(value) ==
    /\ mode = "tree" /\ ~panicked
    /\ SetTreeKeep(insert(Tree, value))
    /\ present' = present \cup {value}
    /\ UNCHANGED <<got, mode, queue, yielded>>

\* tree.remove(value)
Remove(value) ==
    /\ mode = "tree" /\ ~panicked
    /\ SetTree(remove(Tree, value).t)
    /\ present' = present \ {value}
    /\ UNCHANGED <<issued, got, mode, queue, yielded>>

ContainsResult(r) == panicked' = ~r.ok /\ Keep(r.ok, r.ret)

\* let i = tree.contains(value), the caller keeping i
ContainsKeep(value) ==
    /\ mode = "tree" /\ ~panicked
    /\ ContainsResult(contains(Tree, value))
    /\ UNCHANGED <<data, free, root, size, present, got, mode, queue, yielded>>

GetResult(index, r) == panicked' = ~r.ok /\ got' = <<index, r.ret>>

\* tree.get(index) with an index kept earlier
Get(index) ==
    /\ mode = "tree" /\ ~panicked
    /\ index \in issued
    /\ GetResult(index, get(Tree, index))
    /\ UNCHANGED <<data, free, root, size, present, issued, mode, queue, yielded>>

\* tree.into_iter()
IntoIter ==
    /\ mode = "tree" /\ ~panicked
    /\ mode' = "iter"
    /\ queue' = <<root>>
    /\ UNCHANGED <<data, free, root, size, panicked, present, issued, got, yielded>>

IterResult(r) ==
    /\ data' = r.it.data
    /\ queue' = r.it.queue
    /\ panicked' = ~r.ok
    /\ yielded' = IF r.ok /\ r.ret # NONE THEN Append(yielded, r.ret) ELSE yielded
    /\ mode' = IF r.ok /\ r.ret = NONE THEN "done" ELSE "iter"

\* iter.next()
IterNext ==
    /\ mode = "iter" /\ ~panicked
    /\ IterResult(iter_next([data |-> data, queue |-> queue]))
    /\ UNCHANGED <<free, root, size, present, issued, got>>

Next ==
    \/ \E value \in Values : Insert(value)
    \/ \E value \in Values : Remove(value)

Spec == Init /\ [][Next]_vars

NextGet ==
    \/ \E value \in GetValues : InsertKeep(value)
    \/ \E value \in GetValues : Remove(value)
    \/ \E value \in GetValues : ContainsKeep(value)
    \/ \E index \in issued : Get(index)

SpecGet == Init /\ [][NextGet]_vars

NextIter ==
    \/ \E value \in IterValues : Insert(value)
    \/ \E value \in IterValues : Remove(value)
    \/ IntoIter
    \/ IterNext

SpecIter == Init /\ [][NextIter]_vars

\* ---------------------------------------------------------------------
\* The structure as the links give it, recomputed without the height field
\* ---------------------------------------------------------------------
\* Height of the subtree behind link i (absent child = -1).  fuel bounds
\* the walk, so that it ends on any arena; a link to a vacated or
\* out-of-range slot counts as absent here and is caught by LinksOccupied.
RECURSIVE StructHeight(_, _, _)
StructHeight(t, i, fuel) ==
    IF i = NONE \/ fuel = 0 \/ ~Occupied(t, i) THEN -1
    ELSE 1 + Max(StructHeight(t, Slot(t, i).left, fuel - 1),
                 StructHeight(t, Slot(t, i).right, fuel - 1))

\* Slots reachable through link i
RECURSIVE Subtree(_, _, _)
Subtree(t, i, fuel) ==
    IF i = NONE \/ fuel = 0 \/ ~Occupied(t, i) THEN {}
    ELSE {i} \cup Subtree(t, Slot(t, i).left, fuel - 1)
             \cup Subtree(t, Slot(t, i).right, fuel - 1)

Fuel(t) == Len(t.data) + 1
HeightOf(t, i) == StructHeight(t, i, Fuel(t))
SubtreeValues(t, i) == {Slot(t, j).value : j \in Subtree(t, i, Fuel(t))}
Reachable(t) == IF t.size = 0 THEN {} ELSE Subtree(t, t.root, Fuel(t))
OccupiedSlots(t) == {i \in 0..(Len(t.data) - 1) : Slot(t, i).occ}
StoredValues(t) == {Slot(t, i).value : i \in OccupiedSlots(t)}

BalanceFactor(t, i) == HeightOf(t, Slot(t, i).right) - HeightOf(t, Slot(t, i).left)

\* Every link of a reachable node is absent or names an occupied slot
LinksOccupied(t) ==
    \A i \in Reachable(t) :
        /\ Slot(t, i).left # NONE => Occupied(t, Slot(t, i).left)
        /\ Slot(t, i).right # NONE => Occupied(t, Slot(t, i).right)

IsAVL(t) == \A i \in Reachable(t) : BalanceFactor(t, i) \in {-1, 0, 1}

IsBST(t) ==
    \A i \in Reachable(t) :
        /\ \A w \in SubtreeValues(t, Slot(t, i).left) : w < Slot(t, i).value
        /\ \A w \in SubtreeValues(t, Slot(t, i).right) : w > Slot(t, i).value

HeightsCorrect(t) ==
    \A i \in Reachable(t) :
        Slot(t, i).height = 1 + Max(HeightOf(t, Slot(t, i).left), HeightOf(t, Slot(t, i).right))

\* The tree is the caller's and no call has panicked
Live == mode = "tree" /\ ~panicked

\* The slot holding value v
SlotOf(t, v) == CHOOSE i \in OccupiedSlots(t) : Slot(t, i).value = v
TwoChildren(t, i) == Slot(t, i).left # NONE /\ Slot(t, i).right # NONE

\* ---------------------------------------------------------------------
\* Claims
\* ---------------------------------------------------------------------

\* C1: after every insert and every remove, every node reachable from the
\* root has balance factor height(right) - height(left) in {-1, 0, 1},
\* heights computed from the links.
C1_AVLBalance == Live => LinksOccupied(Tree) /\ IsAVL(Tree)

\* C2: after every insert and every remove the tree is a binary search tree
\* without duplicates: everything behind a node's left link is strictly
\* less than the node's value, everything behind its right link strictly
\* greater.
C2_BSTOrder == Live => LinksOccupied(Tree) /\ IsBST(Tree)

\* A tree of five values or more whose root moved and that has a vacated
\* interior slot (rotations and removals happened), in search-tree order
C2_Witness ==
    Live /\ size >= 5 /\ root # 0 /\ free # <<>> /\ TwoChildren(Tree, root) /\ IsBST(Tree)

\* C3: after every insert and every remove the height field of every
\* reachable node equals 1 + max of the heights of its subtrees as
\* recomputed from the links (absent child = -1).
C3_HeightCorrect == Live => LinksOccupied(Tree) /\ HeightsCorrect(Tree)

\* A tree of height 2 or more with a vacated interior slot whose stored
\* heights agree with the links
C3_Witness ==
    Live /\ size >= 5 /\ free # <<>> /\ HeightOf(Tree, root) >= 2 /\ HeightsCorrect(Tree)

\* C4: for every value v currently stored, contains(v) returns a slot index
\* i with get(i) == Some(v); for every value not stored, contains returns
\* absent.
C4_ContainsFindsSlot ==
    Live =>
        \A v \in Values :
            LET c == contains(Tree, v)
            IN /\ c.ok
               /\ v \in StoredValues(Tree) =>
                      c.ret # NONE /\ get(Tree, c.ret) = [ret |-> v, ok |-> TRUE]
               /\ v \notin StoredValues(Tree) => c.ret = NONE

\* After inserts and removes, contains finds a value two links below the
\* root at its slot, and reports a value that is not stored as absent
C4_Witness ==
    /\ Live /\ free # <<>>
    /\ \E v \in StoredValues(Tree) :
           LET c == contains(Tree, v)
           IN /\ c.ret # NONE /\ c.ret # root
              /\ c.ret \notin {Slot(Tree, root).left, Slot(Tree, root).right}
              /\ get(Tree, c.ret).ret = v
    /\ \E v \in Values \ StoredValues(Tree) : contains(Tree, v).ret = NONE

\* C5: for any value v stored in the tree, remove(v) returns v, a
\* subsequent contains(v) returns absent, and len() is exactly one less
\* than before the call.
C5_RemoveStored ==
    Live =>
        \A v \in StoredValues(Tree) :
            LET r == remove(Tree, v)
            IN /\ r.t.ok
               /\ r.ret = v
               /\ contains(r.t, v) = [ret |-> NONE, ok |-> TRUE]
               /\ len(r.t) = len(Tree) - 1

\* remove of a value held by a node with two children below the root
C5_Witness ==
    /\ Live /\ size >= 5
    /\ \E v \in StoredValues(Tree) :
           LET r == remove(Tree, v)
           IN /\ SlotOf(Tree, v) # root /\ TwoChildren(Tree, SlotOf(Tree, v))
              /\ r.ret = v /\ len(r.t) = size - 1 /\ contains(r.t, v).ret = NONE

\* C6: for any value v not stored in the tree (a tree with vacated interior
\* slots included), insert(v) returns a slot index i such that right after
\* get(i) == Some(v) and contains(v) == Some(i), and len() is exactly one
\* more than before.
C6_InsertFresh ==
    Live =>
        \A v \in Values \ StoredValues(Tree) :
            LET r == insert(Tree, v)
            IN /\ r.t.ok
               /\ r.ret # NONE
               /\ get(r.t, r.ret) = [ret |-> v, ok |-> TRUE]
               /\ contains(r.t, v) = [ret |-> r.ret, ok |-> TRUE]
               /\ len(r.t) = len(Tree) + 1

\* insert into a tree with a vacated interior slot: the slot is reused and
\* returned
C6_Witness ==
    /\ Live /\ free # <<>> /\ size >= 3
    /\ \E v \in Values \ StoredValues(Tree) :
           LET r == insert(Tree, v)
           IN /\ r.ret = free[Len(free)]
              /\ r.ret < Len(data) - 1
              /\ get(r.t, r.ret).ret = v /\ contains(r.t, v).ret = r.ret

\* C7: for any slot index i returned earlier by insert or contains, after
\* any later inserts and removes, get(i) returns absent whenever slot i is
\* no longer occupied (also when the slot was trimmed off the tail of the
\* arena); it never fails.
C7_GetStaleIsAbsent ==
    Live =>
        \A i \in issued :
            ~Occupied(Tree, i) => get(Tree, i) = [ret |-> NONE, ok |-> TRUE]

\* The values of a sequence, and whether none repeats
Range(seq) == {seq[k] : k \in 1..Len(seq)}
NoRepeat(seq) == \A j, k \in 1..Len(seq) : seq[j] = seq[k] => j = k

\* C8: for every reachable tree, the empty tree included, consuming
\* iteration finishes without failure and yields each stored value exactly
\* once.
C8_IterYieldsEachOnce ==
    /\ mode \in {"iter", "done"} => ~panicked
    /\ mode = "done" => NoRepeat(yielded) /\ Range(yielded) = present

\* C9: for any value v already stored, insert(v) reports not inserted and
\* leaves the whole state unchanged: arena, free list, root, size, every
\* link and every stored height.
C9_InsertDuplicateNoop ==
    Live =>
        \A v \in StoredValues(Tree) :
            insert(Tree, v) = [t |-> Tree, ret |-> NONE]

\* insert of a value stored below the root of a tree with a vacated slot
C9_Witness ==
    /\ Live /\ free # <<>> /\ size >= 3
    /\ \E v \in StoredValues(Tree) :
           /\ SlotOf(Tree, v) # root
           /\ insert(Tree, v).ret = NONE /\ insert(Tree, v).t = Tree

\* C10: for any tree, empty or not, and any value v not stored in it,
\* remove(v) returns absent and leaves the whole state unchanged.
C10_RemoveAbsentNoop ==
    Live =>
        \A v \in Values \ StoredValues(Tree) :
            remove(Tree, v) = [t |-> Tree, ret |-> NONE]

\* remove of a value that lies between two stored values and is not stored
C10_Witness ==
    /\ Live /\ size >= 3
    /\ \E v \in Values \ StoredValues(Tree) :
           /\ \E a, b \in StoredValues(Tree) : a < v /\ v < b
           /\ remove(Tree, v).ret = NONE /\ remove(Tree, v).t = Tree

\* C11: inserting N distinct values in any order and then removing all N
\* in any order completes without failure and leaves a state that cannot be
\* told from a freshly constructed tree: len() == 0, empty arena, empty
\* free list, root 0.
C11_RoundTripEmpty ==
    /\ (mode = "tree" /\ present = {}) => ~panicked /\ Tree = NewTree
    /\ Live => \A v \in StoredValues(Tree) :
                   size = 1 => remove(Tree, v) = [t |-> NewTree, ret |-> v]

\* The last value of a tree that went through removals (a vacated slot
\* before it, the root moved) is removed and the fresh state comes back
C11_Witness ==
    /\ Live /\ size = 1 /\ free # <<>> /\ root # 0
    /\ \E v \in StoredValues(Tree) : remove(Tree, v).t = NewTree

\* C12: after every insert and every remove, size (the value of len())
\* equals the number of occupied arena slots, and is_empty() holds exactly
\* when no slot is occupied.
C12_SizeCountsOccupied ==
    Live =>
        /\ len(Tree) = Cardinality(OccupiedSlots(Tree))
        /\ is_empty(Tree) <=> OccupiedSlots(Tree) = {}

\* A tree of three values or more in an arena longer than its size
C12_Witness ==
    /\ Live /\ size >= 3 /\ free # <<>> /\ Len(data) > size
    /\ len(Tree) = Cardinality(OccupiedSlots(Tree))

\* C13: after every insert and every remove the arena has no trailing
\* vacated slot: it is empty or its last slot is occupied.
C13_NoTrailingVacant == Live => data = <<>> \/ Last(data).occ

\* A remove that trims two slots or more off the tail and leaves a tree
C13_Witness ==
    /\ Live /\ free # <<>> /\ Last(data).occ
    /\ \E v \in StoredValues(Tree) :
           /\ remove(Tree, v).t.size >= 1
           /\ Len(remove(Tree, v).t.data) <= Len(data) - 2
           /\ Last(remove(Tree, v).t.data).occ

\* C14: in every reachable state a call to insert, remove or contains
\* never hits an internal failure (no lookup of a vacated or out-of-range
\* slot, no unwrap of a missing child, no unreachable branch).
C14_NoInternalFailure ==
    /\ mode = "tree" => ~panicked
    /\ Live => \A v \in Values :
                   /\ insert(Tree, v).t.ok
                   /\ remove(Tree, v).t.ok
                   /\ contains(Tree, v).ok

\* An unbalanced tree with a vacated slot on which a remove of a node with
\* two children, an insert and a contains all succeed
C14_Witness ==
    /\ Live /\ free # <<>> /\ ~IsAVL(Tree)
    /\ \E v \in StoredValues(Tree) :
           /\ TwoChildren(Tree, SlotOf(Tree, v))
           /\ remove(Tree, v).t.ok /\ remove(Tree, v).ret = v
           /\ contains(Tree, v).ok
    /\ \E v \in Values \ StoredValues(Tree) : insert(Tree, v).t.ok /\ insert(Tree, v).ret # NONE

\* The subtree behind link i taken alone
SubtreeAVL(t, i) == \A j \in Subtree(t, i, Fuel(t)) : BalanceFactor(t, j) \in {-1, 0, 1}
SubtreeBST(t, i) ==
    \A j \in Subtree(t, i, Fuel(t)) :
        /\ \A w \in SubtreeValues(t, Slot(t, j).left) : w < Slot(t, j).value
        /\ \A w \in SubtreeValues(t, Slot(t, j).right) : w > Slot(t, j).value

\* balance_node is entered at index with a balance factor of -2 or +2 (the
\* one update_height returned, equal to the one the links give) and both
\* subtrees of index are AVL
BalancerPremise(t, index, balance_factor) ==
    /\ balance_factor \in {-2, 2}
    /\ Occupied(t, index)
    /\ BalanceFactor(t, index) = balance_factor
    /\ SubtreeAVL(t, Slot(t, index).left)
    /\ SubtreeAVL(t, Slot(t, index).right)

\* What balance_node returned, bn, is an AVL subtree holding the values of
\* the subtree of index in search-tree order
BalancerConclusion(t, index, bn) ==
    /\ bn.t.ok /\ bn.ret # NONE
    /\ SubtreeAVL(bn.t, bn.ret)
    /\ SubtreeBST(bn.t, bn.ret)
    /\ SubtreeValues(bn.t, bn.ret) = SubtreeValues(t, index)
    /\ Cardinality(Subtree(bn.t, bn.ret, Fuel(bn.t))) = Cardinality(Subtree(t, index, Fuel(t)))

\* The loop of update_and_balance replayed over visited_indices, looking at
\* every call of balance_node it makes
RECURSIVE BalancerSound(_, _)
BalancerSoundPatch(uh, bn, index, rest) ==
    /\ BalancerPremise(uh.t, index, uh.ret) => BalancerConclusion(uh.t, index, bn)
    /\ BalancerSound(PatchLink(bn, index, rest), rest)

BalancerSoundNode(uh, index, rest) ==
    BalancerSoundPatch(uh, balance_node(uh.t, index, uh.ret), index, rest)

BalancerSound(t, visited_indices) ==
    IF ~t.ok \/ visited_indices = <<>> THEN TRUE
    ELSE BalancerSoundNode(update_height(t, Last(visited_indices)),
                           Last(visited_indices), Front(visited_indices))

\* The tree and the path insert hands to update_and_balance
InsertBalancerSound(t, value, ch) ==
    (ch.ok /\ ch.some /\ ~ch.found /\ ch.path # <<>>) =>
        BalancerSound(link_child(insert_helper(t, value).t, Last(ch.path),
                                 value < Slot(t, Last(ch.path)).value,
                                 insert_helper(t, value).ret),
                      ch.path)

\* C15: whenever balance_node is applied to a node whose balance factor is
\* -2 or +2 and whose two subtrees are each AVL, the subtree behind the
\* slot it returns is AVL at every node, the returned root included, and
\* holds the same values in search-tree order.  Stated of every call of
\* balance_node made by an insert of a new value in a reachable state.
C15_BalancerRestoresAVL ==
    Live => \A v \in Values \ StoredValues(Tree) :
                size > 0 => InsertBalancerSound(Tree, v, contains_helper(Tree, v))

SetMax(S) == CHOOSE x \in S : \A y \in S : y <= x
SetMin(S) == CHOOSE x \in S : \A y \in S : x <= y

\* Left subtree of slot s strictly taller than its right subtree
LeftTaller(t, s) == HeightOf(t, Slot(t, s).left) > HeightOf(t, Slot(t, s).right)

\* The in-order neighbour of the value at slot s, a node with two
\* children, on the side of the taller subtree, ties to the right
Neighbour(t, s) ==
    IF LeftTaller(t, s) THEN SetMax(SubtreeValues(t, Slot(t, s).left))
    ELSE SetMin(SubtreeValues(t, Slot(t, s).right))

\* Slots occupied in t that are vacated or trimmed away in u
VacatedBy(t, u) == {i \in OccupiedSlots(t) : ~Occupied(u, i)}

\* r is the outcome of remove(value at s) on t, s a node with two children
TwoChildRemoveOK(t, v, s, r) ==
    /\ r.t.ok /\ r.ret = v
    /\ Occupied(r.t, s)
    /\ Slot(r.t, s).value = Neighbour(t, s)
    /\ s \notin VacatedBy(t, r.t)
    /\ VacatedBy(t, r.t) =
           {IF OnlyChild(Slot(t, SlotOf(t, Neighbour(t, s)))) # NONE
            THEN OnlyChild(Slot(t, SlotOf(t, Neighbour(t, s))))
            ELSE SlotOf(t, Neighbour(t, s))}

\* C16: when remove(v) targets a node with two children stored at slot s,
\* slot s stays occupied and holds the in-order neighbour of v from the
\* taller child subtree (the predecessor when the left subtree is strictly
\* taller, otherwise the successor); the one slot vacated is another slot:
\* the neighbour's own slot, or the former slot of its single child.
C16_TwoChildrenRemoveInPlace ==
    Live => \A v \in StoredValues(Tree) :
                TwoChildren(Tree, SlotOf(Tree, v)) =>
                    TwoChildRemoveOK(Tree, v, SlotOf(Tree, v), remove(Tree, v))

\* A removal of a node with two children on the predecessor side whose
\* neighbour has a child (the two slots are swapped and the child's former
\* slot is vacated), from a tree that already has a vacated slot
C16_Witness ==
    /\ Live /\ free # <<>>
    /\ \E v \in StoredValues(Tree) :
           /\ TwoChildren(Tree, SlotOf(Tree, v))
           /\ LeftTaller(Tree, SlotOf(Tree, v))
           /\ OnlyChild(Slot(Tree, SlotOf(Tree, Neighbour(Tree, SlotOf(Tree, v))))) # NONE
           /\ TwoChildRemoveOK(Tree, v, SlotOf(Tree, v), remove(Tree, v))

\* The vacated slots of the arena
VacatedSlots(t) == {i \in 0..(Len(t.data) - 1) : ~Slot(t, i).occ}

\* C17: after every insert and every remove the free list holds exactly the
\* indices of the vacated arena slots, each once and none out of range; an
\* insert of a new value into a tree with a vacated slot reuses one and
\* leaves the arena length unchanged, and the arena grows by one slot only
\* when no slot is vacated.
C17_FreeListExact ==
    Live =>
        /\ Range(free) = VacatedSlots(Tree)
        /\ NoRepeat(free)
        /\ \A v \in Values \ StoredValues(Tree) :
               /\ insert(Tree, v).t.ok
               /\ VacatedSlots(Tree) # {} =>
                      /\ insert(Tree, v).ret \in VacatedSlots(Tree)
                      /\ Len(insert(Tree, v).t.data) = Len(data)
               /\ VacatedSlots(Tree) = {} =>
                      /\ insert(Tree, v).ret = Len(data)
                      /\ Len(insert(Tree, v).t.data) = Len(data) + 1

\* Two vacated slots on the free list, a remove that trims the tail and
\* drops an index from the free list, and an insert that reuses a slot
C17_Witness ==
    /\ Live /\ Len(free) >= 2 /\ Range(free) = VacatedSlots(Tree)
    /\ \E v \in StoredValues(Tree) :
           /\ Len(remove(Tree, v).t.data) < Len(data)
           /\ Len(remove(Tree, v).t.free) < Len(free)
    /\ \E v \in Values \ StoredValues(Tree) :
           /\ insert(Tree, v).ret \in VacatedSlots(Tree)
           /\ Len(insert(Tree, v).t.data) = Len(data)

\* C18: the tree behaves as a set under any sequence of insert and remove
\* calls: after each call, for every value x of the domain, contains(x) is
\* present exactly when x was inserted and not removed since; remove(v)
\* loses or resurrects no value other than v, insert(v) loses none.
C18_SetSemantics ==
    Live =>
        /\ \A x \in Values : contains(Tree, x).ok /\ (contains(Tree, x).ret # NONE <=> x \in present)
        /\ StoredValues(Tree) = present
        /\ \A v \in Values : StoredValues(remove(Tree, v).t) = present \ {v}
        /\ \A v \in Values : StoredValues(insert(Tree, v).t) = present \cup {v}

\* Four values stored and another removed, after rotations and removals,
\* with contains answering for each value of the domain
C18_Witness ==
    /\ Live /\ free # <<>> /\ root # 0
    /\ Cardinality(present) >= 4 /\ present # Values
    /\ \A x \in Values : contains(Tree, x).ret # NONE <=> x \in present
    /\ \E v \in present : TwoChildren(Tree, SlotOf(Tree, v))
                          /\ StoredValues(remove(Tree, v).t) = present \ {v}

\* Number of walks from link i down to a node, the node at i included
RECURSIVE Visits(_, _, _)
Visits(t, i, fuel) ==
    IF i = NONE \/ fuel = 0 \/ ~Occupied(t, i) THEN 0
    ELSE 1 + Visits(t, Slot(t, i).left, fuel - 1) + Visits(t, Slot(t, i).right, fuel - 1)

\* root names an occupied slot; the slots reachable from it are the
\* occupied slots, each by one path; no link to a vacated or out-of-range
\* slot
WellLinked(t) ==
    /\ Occupied(t, t.root)
    /\ LinksOccupied(t)
    /\ Reachable(t) = OccupiedSlots(t)
    /\ Visits(t, t.root, Fuel(t)) = Cardinality(OccupiedSlots(t))

\* C19: whenever the tree is non-empty after an insert or remove, root
\* names an occupied slot and the slots reachable from root through left
\* and right links are exactly the occupied slots, each reached by exactly
\* one path: no cycle, no slot with two parents, no link to a vacated or
\* out-of-range slot, no orphaned occupied slot.
C19_ReachableIsOccupied == (Live /\ size > 0) => WellLinked(Tree)

\* A tree of four values or more with two vacated slots whose root moved,
\* and a removal of a node with two children from it
C19_Witness ==
    /\ Live /\ size >= 4 /\ Len(free) >= 2 /\ root # 0
    /\ WellLinked(Tree)
    /\ \E v \in StoredValues(Tree) :
           TwoChildren(Tree, SlotOf(Tree, v)) /\ WellLinked(remove(Tree, v).t)

\* C20: a successful insert never relocates existing values: for every
\* value w stored before insert(v), the slot index contains(w) returns is
\* the same before and after the call, rotations included.
C20_InsertKeepsSlots ==
    Live => \A v \in Values \ StoredValues(Tree) :
                /\ insert(Tree, v).ret # NONE
                /\ \A w \in StoredValues(Tree) :
                       /\ contains(Tree, w).ret # NONE
                       /\ contains(insert(Tree, v).t, w).ret = contains(Tree, w).ret

\* An insert that goes through a double rotation at the root and reuses a
\* vacated slot, every stored value staying in its slot
C20_Witness ==
    /\ Live /\ size >= 2 /\ free # <<>>
    /\ \E v \in Values \ StoredValues(Tree) :
           /\ insert(Tree, v).ret \in VacatedSlots(Tree)
           /\ insert(Tree, v).t.root = insert(Tree, v).ret
           /\ \A w \in StoredValues(Tree) :
                  contains(insert(Tree, v).t, w).ret = contains(Tree, w).ret
====
